---- MODULE Spec2Model ----
(***************************************************************************)
(* Model of the chat endpoint of Code-and-Clause:                          *)
(*   routers/helpers/helper.py : extract_urls, handle_content              *)
(*   routers/chatbot.py        : chatbot_post                              *)
(*                                                                         *)
(* A Python str is a sequence of tokens.  A token is an atom of text: a    *)
(* word, one whitespace character, a URL scheme "http://" / "https://",    *)
(* a file extension, a MIME major type with its slash.  Concatenation is   *)
(* \o, so f-strings, str.strip, str.lower, "x in s", str.startswith and    *)
(* "\n\n".join are computed on the tokens as Python computes them on the   *)
(* characters.  An Optional value is <<>> (None) or <<v>>.                 *)
(***************************************************************************)
EXTENDS Integers, Sequences, FiniteSets, TLC

(***************************************************************************)
(* Bounds                                                                  *)
(***************************************************************************)
\* longest text (in tokens) given to extract_urls in SpecExtract
MaxTextLen == 5
\* most URLs in the user text of one request in Spec
MaxUrls == 2
\* requests submitted at the same time
NumRequests == 2

(***************************************************************************)
(* Strings                                                                 *)
(***************************************************************************)
None == <<>>
Some(v) == <<v>>
IsNone(o) == o = <<>>
\* Python truthiness of an Optional[str]: None and "" are falsy
Truthy(o) == o # <<>> /\ o[1] # <<>>
\* Python's `o or d` for an Optional[str] o and a str d
OrElse(o, d) == IF Truthy(o) THEN o[1] ELSE d

\* the characters \s of a regex and the ones str.strip() removes
Whitespace == {" ", "\n"}

RECURSIVE LStrip(_)
LStrip(s) ==
    IF s # <<>> /\ Head(s) \in Whitespace THEN LStrip(Tail(s)) ELSE s

RECURSIVE RStrip(_)
RStrip(s) ==
    IF s # <<>> /\ s[Len(s)] \in Whitespace
    THEN RStrip(SubSeq(s, 1, Len(s) - 1))
    ELSE s

\* str.strip()
Strip(s) == RStrip(LStrip(s))

\* `sub in s`
Contains(s, sub) ==
    \E i \in 1..(Len(s) - Len(sub) + 1) : SubSeq(s, i, i + Len(sub) - 1) = sub

\* s.startswith(p)
StartsWith(s, p) == Len(s) >= Len(p) /\ SubSeq(s, 1, Len(p)) = p

\* str.lower() on one token
LowerTok(t) ==
    CASE t = "Blocked" -> "blocked"
      [] t = "SAFETY" -> "safety"
      [] OTHER -> t

\* str.lower()
Lower(s) == [i \in DOMAIN s |-> LowerTok(s[i])]

\* sep.join(list)
RECURSIVE Join(_, _)
Join(list, sep) ==
    IF list = <<>> THEN <<>>
    ELSE IF Len(list) = 1 THEN list[1]
    ELSE list[1] \o sep \o Join(Tail(list), sep)

(***************************************************************************)
(* extract_urls                                                            *)
(***************************************************************************)
\* mutant: the regex is http:// without the optional s
SchemesHttpOnly == {"http://"}

\* what the regex prefix https?:// matches
Schemes == {"http://", "https://"}

\* index of the last token of the maximal run [^\s]+ that starts at i
RECURSIVE RunEnd(_, _)
RunEnd(text, i) ==
    IF i + 1 <= Len(text) /\ text[i + 1] \notin Whitespace
    THEN RunEnd(text, i + 1)
    ELSE i

\* mutant: the matches are returned last first
RECURSIVE FindAllReversed(_, _)
FindAllReversed(text, i) ==
    IF i > Len(text) THEN <<>>
    ELSE IF text[i] \in Schemes /\ i + 1 <= Len(text)
            /\ text[i + 1] \notin Whitespace
         THEN FindAllReversed(text, RunEnd(text, i + 1) + 1)
                \o <<SubSeq(text, i, RunEnd(text, i + 1))>>
         ELSE FindAllReversed(text, i + 1)

\* re.findall(r'(https?://[^\s]+)', text), scanning from position i
RECURSIVE FindAll(_, _)
FindAll(text, i) ==
    IF i > Len(text) THEN <<>>
    ELSE IF text[i] \in Schemes /\ i + 1 <= Len(text)
            /\ text[i + 1] \notin Whitespace
         THEN <<SubSeq(text, i, RunEnd(text, i + 1))>>
                \o FindAll(text, RunEnd(text, i + 1) + 1)
         ELSE FindAll(text, i + 1)

\* extract_urls(text) for an Optional[str]
extract_urls(text) ==
    IF ~Truthy(text) THEN <<>> ELSE FindAll(text[1], 1)

(***************************************************************************)
(* State                                                                   *)
(***************************************************************************)
VARIABLES
    \* chatbot_post: the request and the handler's locals
    user_input,            \* Optional[str] form field
    file,                  \* Optional[UploadFile]: <<>> or <<[filename, content_type]>>
    pc,                    \* position of chatbot_post
    status,                \* HTTP status of the response, 0 while running
    raised,                \* what left the handler: "", "HTTPException", "Exception"
    fault,                 \* the internal step that raised, "" when none did
    history,               \* deque(maxlen=MAX_HISTORY)
    response_texts,        \* list[str]
    collected,             \* response_texts as it was when line 109 was reached
    temp_files_to_remove,  \* list of paths
    urls,                  \* extract_urls(user_input)
    url_i,                 \* index of the URL the for loop is at
    final_resp,            \* Optional[str]
    rag,                   \* outcomes of query_engine.query calls
    background_tasks,      \* paths scheduled with background_tasks.add_task
    \* shared with the environment
    db,                    \* rows of ChatbotInteraction, in insertion order
    disk,                  \* temporary files that exist
    ntmp,                  \* temporary files created so far
    calls,                 \* external calls the handler made, in order
    \* handle_content: the frame of the running (or last) call
    hc,
    \* a direct call of extract_urls
    ex_text, ex_out, ex_pc,
    \* several requests at once
    loop,                  \* the event loop and the coroutines it runs
    sess                   \* the database sessions of concurrent requests

vars == <<user_input, file, pc, status, raised, fault, history, response_texts,
          collected, temp_files_to_remove, urls, url_i, final_resp, rag,
          background_tasks, db, disk, ntmp, calls, hc, ex_text, ex_out, ex_pc,
          loop, sess>>

postVars == <<user_input, file, pc, status, raised, fault, history, response_texts,
              collected, temp_files_to_remove, urls, url_i, final_resp, rag,
              background_tasks, db, calls>>

exVars == <<ex_text, ex_out, ex_pc>>

concVars == <<loop, sess>>

\* no coroutine, no session
IdleLoop == [running |-> 0, at |-> <<>>, phase |-> <<>>, kind |-> <<>>]
IdleSess == [clock |-> 0, req |-> <<>>, got |-> <<>>]

Range(s) == {s[i] : i \in DOMAIN s}

(***************************************************************************)
(* The environment: what fetches, uploads and model calls can answer       *)
(***************************************************************************)
\* an outcome of an external call: a value, or an exception with str(e)
Ok(v) == [ok |-> TRUE, val |-> v]
Fail(e) == [ok |-> FALSE, val |-> e]

\* str(e) of a failed fetch, read, write or upload
IOErrors == {<<"timeout">>}
\* str(e) of a failed model call
GenErrors == {<<"Blocked">>, <<"SAFETY">>, <<"quota">>}
\* str(e) of a failed call with safety_settings
RetryErrors == {<<"Blocked">>}
\* resp.text of an answered model call ("" when the reply carries no text)
GenTexts == {<<"A", "\n">>, <<" ">>, <<"Empty", " ", "Response">>, <<>>}

MimePdf == <<"application/", "pdf">>
MimePng == <<"image/", "png">>
MimeMp3 == <<"audio/", "mpeg">>
MimeTxt == <<"text/", "plain">>
MimeJson == <<"application/", "json">>
MimeMp4 == <<"video/", "mp4">>
Mimes == {MimePdf, MimePng, MimeMp3, MimeTxt, MimeJson, MimeMp4}

\* mimetypes.guess_type(path)[0]: decided by the extension
guess_type(path) ==
    IF path = <<>> THEN None
    ELSE CASE path[Len(path)] = ".pdf" -> Some(MimePdf)
           [] path[Len(path)] = ".png" -> Some(MimePng)
           [] path[Len(path)] = ".mp3" -> Some(MimeMp3)
           [] path[Len(path)] = ".txt" -> Some(MimeTxt)
           [] OTHER -> None

Extensions == {".pdf", ".png", ".mp3", ".txt"}
\* os.path.splitext(name)[1] and pathlib.Path(name).suffix
suffix(path) ==
    IF path # <<>> /\ path[Len(path)] \in Extensions
    THEN <<path[Len(path)]>> ELSE <<>>

\* names tempfile.NamedTemporaryFile hands out, never twice the same
TmpIds == <<"t1", "t2", "t3", "t4", "t5", "t6">>
TmpName(k, sfx) == <<"/tmp/", TmpIds[k]>> \o sfx

(***************************************************************************)
(* handle_content                                                          *)
(***************************************************************************)
IdleFrame ==
    [pc |-> "idle", source |-> <<>>, mime_type |-> None, user_input |-> None,
     contents |-> <<>>, temp_files |-> <<>>, io |-> <<>>, gen |-> <<>>,
     result |-> None]

\* the frame of handle_content(source, mime_type, user_input) at line 41
CallFrame(source, mime_type, prompt) ==
    [IdleFrame EXCEPT !.pc = "entry", !.source = source,
                      !.mime_type = mime_type, !.user_input = prompt]

\* the frame after one more fetch ("get"), local read ("open") or
\* client.files.upload ("upload") was made
Did(frame, what) == [frame EXCEPT !.io = Append(@, what)]

\* httpx.get for a URL, open() for a local path
LoadCall(source) == IF source # <<>> /\ source[1] \in Schemes THEN "get" ELSE "open"

\* mutant: an absent hint is not replaced by the guess
ResolvedMimeNoGuess(f) == f.mime_type

\* lines 43-46: the hint, or the guess when the hint is falsy
ResolvedMime(f) ==
    IF Truthy(f.mime_type) THEN f.mime_type ELSE guess_type(f.source)

\* the elif chain of lines 53, 77, 102, 126, 141
Category(m) ==
    IF m = Some(MimePdf) THEN "pdf"
    ELSE IF Truthy(m) /\ StartsWith(m[1], <<"image/">>) THEN "image"
    ELSE IF Truthy(m) /\ StartsWith(m[1], <<"audio/">>) THEN "audio"
    ELSE IF Truthy(m) /\ (StartsWith(m[1], <<"text/">>)
                          \/ Contains(m[1], <<"json">>)) THEN "text"
    ELSE "unsupported"

\* source.startswith("http")
IsRemote(source) == source # <<>> /\ source[1] \in Schemes

\* mutant: the description is matched as it is, not lowercased
IsSafetyBlockCaseSensitive(e) ==
    Contains(e, <<"blocked">>) \/ Contains(e, <<"safety">>)

\* line 170
IsSafetyBlock(e) ==
    Contains(Lower(e), <<"blocked">>) \/ Contains(Lower(e), <<"safety">>)

\* a `return` of handle_content: the result, then the finally block of
\* lines 196-203 (os.remove of each temp file, a failure only logged)
HCReturnFrom(frame, text) ==
    \E rm_ok \in (IF frame.temp_files = <<>> THEN {TRUE} ELSE BOOLEAN) :
        /\ hc' = [frame EXCEPT !.pc = "ret", !.result = Some(text)]
        /\ disk' = IF rm_ok THEN disk \ Range(frame.temp_files) ELSE disk
        /\ ntmp' = ntmp

HCReturn(text) == HCReturnFrom(hc, text)

\* lines 141-143
HC_Unsupported ==
    /\ hc.pc = "entry"
    /\ Category(ResolvedMime(hc)) = "unsupported"
    /\ HCReturn(<<"Unsupported content type:", " ">>
                  \o OrElse(ResolvedMime(hc), <<"unknown">>))
    /\ UNCHANGED <<postVars, exVars, concVars>>

\* lines 53-74
HC_Pdf ==
    /\ hc.pc = "entry"
    /\ Category(ResolvedMime(hc)) = "pdf"
    /\ \E out \in {Ok(<<"bytes">>)} \cup {Fail(e) : e \in IOErrors},
          part_ok \in BOOLEAN :
        IF ~out.ok
        THEN /\ part_ok
             /\ HCReturnFrom(Did(hc, LoadCall(hc.source)),
                             (IF IsRemote(hc.source)
                              THEN <<"Error fetching PDF:", " ">>
                              ELSE <<"Error reading PDF file:", " ">>) \o out.val)
        ELSE IF ~part_ok
        THEN \* types.Part.from_bytes raises: caught at line 192
             HCReturnFrom(Did(hc, LoadCall(hc.source)),
                          <<"An error occurred while processing your request:", " ">>
                            \o <<"invalid part">>)
        ELSE /\ hc' = [Did(hc, LoadCall(hc.source)) EXCEPT
                        !.pc = "gen1",
                        !.contents = << <<"part", out.val>>,
                            <<"str", OrElse(hc.user_input,
                                            <<"Summarize this document.">>)>> >>]
             /\ UNCHANGED <<disk, ntmp>>
    /\ UNCHANGED <<postVars, exVars, concVars>>

\* lines 77-91 and 102-114: a remote image or audio source is downloaded
\* into a temporary file, a local one is used as it is
HC_Materialize ==
    /\ hc.pc = "entry"
    /\ Category(ResolvedMime(hc)) \in {"image", "audio"}
    /\ LET kind == Category(ResolvedMime(hc))
           err(e) == (IF kind = "image" THEN <<"Error processing image:", " ">>
                      ELSE <<"Error processing audio:", " ">>) \o e
       IN IF IsRemote(hc.source)
          THEN \E step \in {"get_fails", "tmp_fails", "write_fails", "ok"},
                  e \in IOErrors :
                 CASE step = "get_fails" ->
                        HCReturnFrom(Did(hc, "get"), err(e))
                   [] step = "tmp_fails" ->
                        HCReturnFrom(Did(hc, "get"), err(e))
                   [] step = "write_fails" ->
                        \* the file exists but is not yet in temp_files
                        /\ hc' = [Did(hc, "get") EXCEPT
                                   !.pc = "ret", !.result = Some(err(e))]
                        /\ disk' = disk \cup
                                     {TmpName(ntmp + 1, suffix(hc.source))}
                        /\ ntmp' = ntmp + 1
                   [] OTHER ->
                        /\ hc' = [Did(hc, "get") EXCEPT
                                   !.pc = "upload",
                                   !.temp_files =
                                       <<TmpName(ntmp + 1, suffix(hc.source))>>]
                        /\ disk' = disk \cup
                                     {TmpName(ntmp + 1, suffix(hc.source))}
                        /\ ntmp' = ntmp + 1
          ELSE /\ hc' = [hc EXCEPT !.pc = "upload"]
               /\ UNCHANGED <<disk, ntmp>>
    /\ UNCHANGED <<postVars, exVars, concVars>>

\* the file client.files.upload is given (file_to_use)
FileToUse(f) == IF f.temp_files # <<>> THEN f.temp_files[1] ELSE f.source

\* the payload of an image
ImageContents(ref, prompt) == << <<"ref", ref>>, <<"str", prompt>> >>

\* mutant: the audio payload ordered like the image payload
AudioContentsRefFirst(ref, prompt) == << <<"ref", ref>>, <<"str", prompt>> >>

\* the payload of an audio clip
AudioContents(ref, prompt) == << <<"str", prompt>>, <<"ref", ref>> >>

\* lines 92-99 and 116-123
HC_Upload ==
    /\ hc.pc = "upload"
    /\ LET kind == Category(ResolvedMime(hc))
       IN \E out \in {Ok(FileToUse(hc))} \cup {Fail(e) : e \in IOErrors} :
            IF ~out.ok
            THEN HCReturnFrom(Did(hc, "upload"),
                              (IF kind = "image"
                               THEN <<"Error processing image:", " ">>
                               ELSE <<"Error processing audio:", " ">>) \o out.val)
            ELSE /\ hc' = [Did(hc, "upload") EXCEPT
                            !.pc = "gen1",
                            !.contents =
                                IF kind = "image"
                                THEN ImageContents(out.val,
                                        OrElse(hc.user_input,
                                               <<"Caption this image.">>))
                                ELSE AudioContents(out.val,
                                        OrElse(hc.user_input,
                                               <<"Describe this audio clip.">>))]
                 /\ UNCHANGED <<disk, ntmp>>
    /\ UNCHANGED <<postVars, exVars, concVars>>

\* lines 126-140
HC_Text ==
    /\ hc.pc = "entry"
    /\ Category(ResolvedMime(hc)) = "text"
    /\ \E out \in {Ok(<<"data">>)} \cup {Fail(e) : e \in IOErrors} :
        IF ~out.ok
        THEN HCReturnFrom(Did(hc, LoadCall(hc.source)),
                          <<"Error processing text content:", " ">> \o out.val)
        ELSE /\ hc' = [Did(hc, LoadCall(hc.source)) EXCEPT
                        !.pc = "gen1",
                        !.contents = << <<"str", out.val>>,
                            <<"str", OrElse(hc.user_input,
                                            <<"Summarize this content.">>)>> >>]
             /\ UNCHANGED <<disk, ntmp>>
    /\ UNCHANGED <<postVars, exVars, concVars>>

\* mutant: resp.text is returned as it is, also when empty
ReplyTextUnchecked(t) == t

\* lines 181-186: the text of an answered model call
ReplyText(t) ==
    IF t # <<>> THEN t
    ELSE <<"I couldn't generate a response for this content.">>

\* lines 188-190
GenerationError(e) == <<"Error generating response:", " ">> \o e

\* mutant: every failed first call is tried again
RetryAlways(e) == TRUE

\* lines 170-179: whether a failed first call is tried again
RetryAfter(e) == IsSafetyBlock(e)

\* lines 163-170, 178-190: the first client.models.generate_content call
HC_Generate ==
    /\ hc.pc = "gen1"
    /\ \E out \in {Ok(t) : t \in GenTexts} \cup {Fail(e) : e \in GenErrors} :
        LET called == [hc EXCEPT !.gen = Append(hc.gen, out)]
        IN IF out.ok
           THEN HCReturnFrom(called, ReplyText(out.val))
           ELSE IF RetryAfter(out.val)
           THEN /\ hc' = [called EXCEPT !.pc = "gen2"]
                /\ UNCHANGED <<disk, ntmp>>
           ELSE HCReturnFrom(called, GenerationError(out.val))
    /\ UNCHANGED <<postVars, exVars, concVars>>

\* lines 171-177, 181-190: the call with safety_settings; its failure is
\* raised inside the except clause and caught at line 188
HC_Retry ==
    /\ hc.pc = "gen2"
    /\ \E out \in {Ok(t) : t \in GenTexts} \cup {Fail(e) : e \in RetryErrors} :
        LET called == [hc EXCEPT !.gen = Append(hc.gen, out)]
        IN IF out.ok
           THEN HCReturnFrom(called, ReplyText(out.val))
           ELSE HCReturnFrom(called, GenerationError(out.val))
    /\ UNCHANGED <<postVars, exVars, concVars>>

HandleContent ==
    \/ HC_Unsupported
    \/ HC_Pdf
    \/ HC_Materialize
    \/ HC_Upload
    \/ HC_Text
    \/ HC_Generate
    \/ HC_Retry

(***************************************************************************)
(* chatbot_post                                                            *)
(***************************************************************************)
MAX_HISTORY == 5
\* current_user.id of the caller
CurrentUser == 1

\* Content-Type headers a HEAD probe can answer with (None: no such header)
HeadContentTypes == {None, Some(MimePdf), Some(MimeMp3), Some(MimeTxt)}
\* out.response of an answered query_engine.query
RagTexts == {<<"R", "\n">>, <<" ">>, <<"Empty", " ", "Response">>}
\* str(e) of a failed query_engine.query
RagErrors == {<<"index down">>, <<"rate limit">>}

prompt_header == <<"you are Code&Clause">>

\* the URLs of a user text: the i-th is UrlA for odd i and UrlB for even i,
\* so that a text of three URLs holds one of them twice
UrlA == <<"http://", "a", ".png">>
UrlB == <<"https://", "b">>
UrlLists ==
    {[i \in 1..n |-> IF i % 2 = 1 THEN UrlA ELSE UrlB] : n \in 0..MaxUrls}

\* "see" followed by the URLs of list l, each after one blank
RECURSIVE TextOf(_)
TextOf(l) ==
    IF l = <<>> THEN <<"see">>
    ELSE TextOf(SubSeq(l, 1, Len(l) - 1)) \o <<" ">> \o l[Len(l)]

\* the user_input form field of a request
UserInputs == {None, Some(<<>>)} \cup {Some(TextOf(l)) : l \in UrlLists}

Upload(name, ctype) == [filename |-> name, content_type |-> ctype]
\* the file form field of a request
Uploads ==
    {None,
     Some(Upload(<<"f", ".pdf">>, None)),
     Some(Upload(<<"f", ".png">>, Some(MimePng))),
     Some(Upload(<<"f">>, None))}

Row(uid, input, response, ts) ==
    [user_id |-> uid, user_input |-> input, response |-> response,
     timestamp |-> ts]

\* the table before the request
InitialRows ==
    <<Row(2, <<"theirs">>, <<"r1">>, 1), Row(CurrentUser, <<"mine">>, <<"r2">>, 2)>>

\* datetime.now(timezone.utc): later than every stored timestamp
Now(rows) == Len(rows) + 1

Reverse(s) == [i \in DOMAIN s |-> s[Len(s) + 1 - i]]
FirstN(s, n) == SubSeq(s, 1, IF Len(s) < n THEN Len(s) ELSE n)
LastN(s, n) == SubSeq(s, IF Len(s) < n THEN 1 ELSE Len(s) - n + 1, Len(s))

\* lines 47-53: the caller's rows, newest first, at most MAX_HISTORY
Past(rows) ==
    FirstN(Reverse(SelectSeq(rows, LAMBDA r : r.user_id = CurrentUser)),
           MAX_HISTORY)

RECURSIVE Pairs(_)
Pairs(rows) ==
    IF rows = <<>> THEN <<>>
    ELSE <<rows[1].user_input, rows[1].response>> \o Pairs(Tail(rows))

\* lines 54-56: a deque(maxlen=MAX_HISTORY) keeps the last MAX_HISTORY items
History(rows) == LastN(Pairs(Reverse(Past(rows))), MAX_HISTORY)

\* mutant: entries holding the marker "Empty Response" are kept
FilterTextsKeepMarker(texts) ==
    LET keep(r) == r # <<>> /\ Strip(r) # <<>>
        kept == SelectSeq(texts, keep)
    IN [i \in DOMAIN kept |-> Strip(kept[i])]

\* line 109
FilterTexts(texts) ==
    LET keep(r) == r # <<>> /\ Strip(r) # <<>>
                   /\ ~Contains(r, <<"Empty", " ", "Response">>)
        kept == SelectSeq(texts, keep)
    IN [i \in DOMAIN kept |-> Strip(kept[i])]

\* mutant: a failed query gets the placeholder of the empty answer
FallbackTextFixedApology(out) ==
    IF out.ok /\ Strip(out.val) # <<>> THEN Strip(out.val)
    ELSE <<"I couldn't generate a good response for your query.">>

\* lines 117-125: what the fallback appends
FallbackText(out) ==
    IF ~out.ok THEN <<"Error generating response:", " ">> \o out.val
    ELSE IF Strip(out.val) # <<>> THEN Strip(out.val)
    ELSE <<"I couldn't generate a good response for your query.">>

\* mutant: the texts are joined last first
MergeTextsReversed(texts) ==
    IF Join(Reverse(texts), <<"\n", "\n">>) # <<>>
    THEN Join(Reverse(texts), <<"\n", "\n">>)
    ELSE <<"I'm having trouble generating a response right now.">>

\* line 128
MergeTexts(texts) ==
    IF Join(texts, <<"\n", "\n">>) # <<>> THEN Join(texts, <<"\n", "\n">>)
    ELSE <<"I'm having trouble generating a response right now.">>

\* mutant: the file's name is preferred to the text
RecordInputFileFirst ==
    IF ~IsNone(file) THEN file[1].filename
    ELSE IF Truthy(user_input) THEN user_input[1] ELSE <<"<empty>">>

\* line 134
RecordInput ==
    IF Truthy(user_input) THEN user_input[1]
    ELSE IF ~IsNone(file) THEN file[1].filename ELSE <<"<empty>">>

\* mutant: there is no except clause, the exception leaves the handler as
\* it was raised
Exit500Raw(scheduled, what) ==
    /\ status' = 500
    /\ fault' = what
    /\ raised' = "Exception"
    /\ pc' = "done"
    /\ background_tasks' = background_tasks \o scheduled

\* lines 147-154: HTTPException(500) leaves the handler, after the finally
\* block has scheduled the removal of the files in `scheduled`
Exit500(scheduled, what) ==
    /\ status' = 500
    /\ fault' = what
    /\ raised' = "HTTPException"
    /\ pc' = "done"
    /\ background_tasks' = background_tasks \o scheduled

\* mutant: only an absent text counts as missing, not the empty one
MissingInputIsNone == IsNone(user_input) /\ IsNone(file)

\* line 43
MissingInput == ~Truthy(user_input) /\ IsNone(file)

\* lines 43-44
Validate ==
    /\ pc = "start"
    /\ IF MissingInput
       THEN /\ status' = 400
            /\ raised' = "HTTPException"
            /\ pc' = "done"
       ELSE /\ pc' = "history"
            /\ UNCHANGED <<status, raised>>
    /\ UNCHANGED <<user_input, file, fault, history, response_texts, collected,
                   temp_files_to_remove, urls, url_i, final_resp, rag,
                   background_tasks, db, disk, ntmp, calls, hc, exVars, concVars>>

\* lines 47-59; a failing query is raised outside the try block
LoadHistory ==
    /\ pc = "history"
    /\ calls' = Append(calls, <<"history", <<>>>>)
    /\ \E ok \in BOOLEAN :
        IF ok
        THEN /\ history' = History(db)
             /\ pc' = "file"
             /\ UNCHANGED <<status, raised, fault>>
        ELSE /\ status' = 500
             /\ raised' = "Exception"
             /\ fault' = "history"
             /\ pc' = "done"
             /\ UNCHANGED history
    /\ UNCHANGED <<user_input, file, response_texts, collected,
                   temp_files_to_remove, urls, url_i, final_resp, rag,
                   background_tasks, db, disk, ntmp, hc, exVars, concVars>>

\* line 73
UploadMime(f) ==
    IF Truthy(f.content_type) THEN f.content_type ELSE guess_type(f.filename)

\* lines 63-77: the upload is written to a temporary file and resolved
StoreFile ==
    /\ pc = "file"
    /\ IF IsNone(file)
       THEN /\ pc' = "urls"
            /\ UNCHANGED <<status, raised, fault, temp_files_to_remove,
                           background_tasks, disk, ntmp, calls, hc>>
       ELSE LET name == TmpName(ntmp + 1, suffix(file[1].filename))
            IN \E step \in {"tmp_fails", "write_fails", "ok"} :
                CASE step = "tmp_fails" ->
                       /\ Exit500(temp_files_to_remove, "tmpfile")
                       /\ UNCHANGED <<temp_files_to_remove, disk, ntmp,
                                      calls, hc>>
                  [] step = "write_fails" ->
                       \* the file exists and line 71 was not reached
                       /\ Exit500(temp_files_to_remove, "write")
                       /\ disk' = disk \cup {name}
                       /\ ntmp' = ntmp + 1
                       /\ UNCHANGED <<temp_files_to_remove, calls, hc>>
                  [] OTHER ->
                       /\ disk' = disk \cup {name}
                       /\ ntmp' = ntmp + 1
                       /\ temp_files_to_remove' =
                              Append(temp_files_to_remove, name)
                       /\ hc' = CallFrame(name, UploadMime(file[1]),
                                   Some(OrElse(user_input,
                                               <<"Analyze this file.">>)))
                       /\ calls' = Append(calls, <<"resolve", name>>)
                       /\ pc' = "file_wait"
                       /\ UNCHANGED <<status, raised, fault, background_tasks>>
    /\ UNCHANGED <<user_input, file, history, response_texts, collected,
                   urls, url_i, final_resp, rag, db, exVars, concVars>>

\* lines 78-83: handle_content has returned
FileCollect ==
    /\ pc = "file_wait"
    /\ hc.pc = "ret"
    /\ response_texts' =
         Append(response_texts,
                IF hc.result[1] # <<>> THEN hc.result[1]
                ELSE <<"I couldn't process this file type properly.">>)
    /\ hc' = IdleFrame
    /\ pc' = "urls"
    /\ UNCHANGED <<user_input, file, status, raised, fault, history, collected,
                   temp_files_to_remove, urls, url_i, final_resp, rag,
                   background_tasks, db, disk, ntmp, calls, exVars, concVars>>

\* where the for loop of line 93 goes after the URL at index i
AfterUrl(list, i) == IF i < Len(list) THEN "url_head" ELSE "filter"

\* lines 89-93
ExtractUrls ==
    /\ pc = "urls"
    /\ IF Truthy(user_input)
       THEN /\ urls' = extract_urls(user_input)
            /\ url_i' = 1
            /\ pc' = AfterUrl(extract_urls(user_input), 0)
       ELSE /\ pc' = "filter"
            /\ UNCHANGED <<urls, url_i>>
    /\ UNCHANGED <<user_input, file, status, raised, fault, history, response_texts,
                   collected, temp_files_to_remove, final_resp, rag,
                   background_tasks, db, disk, ntmp, calls, hc, exVars, concVars>>

\* line 97: the header, or the guess when there is no such header
HeadMime(ctype, url) == IF ~IsNone(ctype) THEN ctype ELSE guess_type(url)

\* mutant: a failed probe is not caught in the loop and ends the request
OnHeadFailureRaises(url, e) ==
    /\ Exit500(temp_files_to_remove, "")
    /\ UNCHANGED <<response_texts, url_i>>

\* mutant: a failed probe is passed over without an entry
OnHeadFailureSkips(url, e) ==
    /\ url_i' = url_i + 1
    /\ pc' = AfterUrl(urls, url_i)
    /\ UNCHANGED <<response_texts, status, raised, fault, background_tasks>>

\* lines 105-107: the probe raised; the text is collected and the loop
\* goes on with the next URL
OnHeadFailure(url, e) ==
    /\ response_texts' =
         Append(response_texts,
                <<"Error processing URL", " ">> \o url \o <<":", " ">> \o e)
    /\ url_i' = url_i + 1
    /\ pc' = AfterUrl(urls, url_i)
    /\ UNCHANGED <<status, raised, fault, background_tasks>>

\* lines 94-100 and 105-107: the HEAD probe of one URL, then the call of
\* handle_content, or the error text when the probe raises
UrlHead ==
    /\ pc = "url_head"
    /\ LET url == urls[url_i]
       IN \E out \in {Ok(c) : c \in HeadContentTypes}
                       \cup {Fail(e) : e \in IOErrors} :
            IF out.ok
            THEN /\ hc' = CallFrame(url, HeadMime(out.val, url), user_input)
                 /\ calls' = calls \o << <<"head", url>>, <<"resolve", url>> >>
                 /\ pc' = "url_wait"
                 /\ UNCHANGED <<response_texts, url_i, status, raised, fault,
                                background_tasks>>
            ELSE /\ OnHeadFailure(url, out.val)
                 /\ calls' = Append(calls, <<"head", url>>)
                 /\ UNCHANGED hc
    /\ UNCHANGED <<user_input, file, history, collected,
                   temp_files_to_remove, urls, final_resp, rag,
                   db, disk, ntmp, exVars, concVars>>

\* lines 101-104: handle_content has returned
UrlCollect ==
    /\ pc = "url_wait"
    /\ hc.pc = "ret"
    /\ response_texts' =
         Append(response_texts,
                IF hc.result[1] # <<>> THEN hc.result[1]
                ELSE <<"Couldn't process URL:", " ">> \o urls[url_i])
    /\ hc' = IdleFrame
    /\ url_i' = url_i + 1
    /\ pc' = AfterUrl(urls, url_i)
    /\ UNCHANGED <<user_input, file, status, raised, fault, history, collected,
                   temp_files_to_remove, urls, final_resp, rag,
                   background_tasks, db, disk, ntmp, calls, exVars, concVars>>

\* mutant: the query is made for every request with a text
NeedsFallbackAnyText(texts) == Truthy(user_input)

\* line 112
NeedsFallback(texts) == texts = <<>> /\ Truthy(user_input)

\* line 109
Filter ==
    /\ pc = "filter"
    /\ collected' = response_texts
    /\ response_texts' = FilterTexts(response_texts)
    /\ pc' = IF NeedsFallback(FilterTexts(response_texts))
             THEN "fallback" ELSE "merge"
    /\ UNCHANGED <<user_input, file, status, raised, fault, history,
                   temp_files_to_remove, urls, url_i, final_resp, rag,
                   background_tasks, db, disk, ntmp, calls, hc, exVars, concVars>>

\* lines 112-125
Fallback ==
    /\ pc = "fallback"
    /\ \E out \in {Ok(t) : t \in RagTexts} \cup {Fail(e) : e \in RagErrors} :
        /\ rag' = Append(rag, out)
        /\ response_texts' = Append(response_texts, FallbackText(out))
    /\ calls' = Append(calls, <<"query", prompt_header \o <<"\n">> \o user_input[1]>>)
    /\ pc' = "merge"
    /\ UNCHANGED <<user_input, file, status, raised, fault, history, collected,
                   temp_files_to_remove, urls, url_i, final_resp,
                   background_tasks, db, disk, ntmp, hc, exVars, concVars>>

\* mutant: the record is added once more
PersistedTwice(rows, response) ==
    LET r == Row(CurrentUser, RecordInput, response, Now(rows))
    IN Append(Append(rows, r), r)

\* lines 132-139: the rows after db.add and db.commit
Persisted(rows, response) ==
    Append(rows, Row(CurrentUser, RecordInput, response, Now(rows)))

\* lines 128-154: merge, persist, answer
Respond ==
    /\ pc = "merge"
    /\ final_resp' = Some(MergeTexts(response_texts))
    /\ \E step \in {"commit_fails", "response_fails", "ok"} :
        CASE step = "commit_fails" ->
               /\ Exit500(temp_files_to_remove, "commit")
               /\ UNCHANGED db
          [] step = "response_fails" ->
               \* the row is committed, building ChatbotResponse raises
               /\ Exit500(temp_files_to_remove, "response")
               /\ db' = Persisted(db, MergeTexts(response_texts))
          [] OTHER ->
               /\ db' = Persisted(db, MergeTexts(response_texts))
               /\ status' = 200
               /\ pc' = "done"
               /\ background_tasks' = background_tasks \o temp_files_to_remove
               /\ UNCHANGED <<raised, fault>>
    /\ UNCHANGED <<user_input, file, history, response_texts, collected,
                   temp_files_to_remove, urls, url_i, rag, disk, ntmp,
                   calls, hc, exVars, concVars>>

ChatbotPost ==
    \/ Validate
    \/ LoadHistory
    \/ StoreFile
    \/ FileCollect
    \/ ExtractUrls
    \/ UrlHead
    \/ UrlCollect
    \/ Filter
    \/ Fallback
    \/ Respond

(***************************************************************************)
(* Specifications                                                          *)
(***************************************************************************)
\* one POST /chatbot/ request arrives
Init ==
    /\ user_input \in UserInputs
    /\ file \in Uploads
    /\ pc = "start" /\ status = 0
    /\ raised = "" /\ fault = "" /\ history = <<>> /\ response_texts = <<>>
    /\ collected = <<>> /\ temp_files_to_remove = <<>> /\ urls = <<>>
    /\ url_i = 0 /\ final_resp = None /\ rag = <<>>
    /\ background_tasks = <<>> /\ db = InitialRows /\ disk = {} /\ ntmp = 0
    /\ calls = <<>> /\ hc = IdleFrame
    /\ ex_text = None /\ ex_out = <<>> /\ ex_pc = "none"
    /\ loop = IdleLoop /\ sess = IdleSess

Next == ChatbotPost \/ HandleContent

Spec == Init /\ [][Next]_vars

\* sources, hints and prompts of a direct call of handle_content
LocalFile == <<"/data/", "x", ".mp3">>
HCSources == {UrlA, UrlB, LocalFile, <<"/data/", "missing">>}
HCHints == {None, Some(<<>>)} \cup {Some(m) : m \in Mimes}
HCPrompts == {None, Some(<<>>), Some(<<"what", " ", "is", " ", "this">>)}

\* one call handle_content(source, mime_type, user_input)
InitHC ==
    /\ user_input = None /\ file = None /\ pc = "none" /\ status = 0
    /\ raised = "" /\ fault = "" /\ history = <<>> /\ response_texts = <<>>
    /\ collected = <<>> /\ temp_files_to_remove = <<>> /\ urls = <<>>
    /\ url_i = 0 /\ final_resp = None /\ rag = <<>>
    /\ background_tasks = <<>> /\ db = InitialRows /\ disk = {} /\ ntmp = 0
    /\ calls = <<>>
    /\ \E s \in HCSources, m \in HCHints, p \in HCPrompts :
          hc = CallFrame(s, m, p)
    /\ ex_text = None /\ ex_out = <<>> /\ ex_pc = "none"
    /\ loop = IdleLoop /\ sess = IdleSess

SpecHC == InitHC /\ [][HandleContent]_vars

\* the tokens of a text given to extract_urls
ExAlphabet == {"http://", "https://", " ", "\n", "a"}
ExTexts == UNION {[1..n -> ExAlphabet] : n \in 0..MaxTextLen}

\* lines 17-21: one call extract_urls(text)
ExtractCall ==
    /\ ex_pc = "call"
    /\ ex_out' = extract_urls(ex_text)
    /\ ex_pc' = "ret"
    /\ UNCHANGED <<postVars, disk, ntmp, hc, ex_text, concVars>>

InitExtract ==
    /\ user_input = None /\ file = None /\ pc = "none" /\ status = 0
    /\ raised = "" /\ fault = "" /\ history = <<>> /\ response_texts = <<>>
    /\ collected = <<>> /\ temp_files_to_remove = <<>> /\ urls = <<>>
    /\ url_i = 0 /\ final_resp = None /\ rag = <<>>
    /\ background_tasks = <<>> /\ db = InitialRows /\ disk = {} /\ ntmp = 0
    /\ calls = <<>> /\ hc = IdleFrame
    /\ ex_text \in {None} \cup {Some(t) : t \in ExTexts}
    /\ ex_out = <<>> /\ ex_pc = "call"
    /\ loop = IdleLoop /\ sess = IdleSess

SpecExtract == InitExtract /\ [][ExtractCall]_vars

(***************************************************************************)
(* Claims                                                                  *)
(***************************************************************************)
\* rows the request has added to the table
NewRows == Len(db) - Len(InitialRows)

\* C1, as stated: every POST /chatbot/ request, once over, has persisted
\* exactly one interaction record.
C1_OneRecordPerRequest ==
    pc = "done" => NewRows = 1

\* C1, amended: a request answered with status 200 has persisted exactly one
\* record, whatever its sub-resolutions were and however they ended; a request
\* rejected with 400 has persisted none, one ended with 500 at most one; the
\* rows that were there are kept, and the one row holds the final response.
C1_OneRecordPerAnsweredRequest ==
    /\ NewRows \in {0, 1}
    /\ SubSeq(db, 1, Len(InitialRows)) = InitialRows
    /\ pc # "done" => NewRows = 0
    /\ (pc = "done" /\ status = 200) =>
          /\ NewRows = 1
          /\ db[Len(db)].response = final_resp[1]
    /\ (pc = "done" /\ status = 400) => NewRows = 0

\* C1: a request with a file and two URLs whose three results were all
\* dropped, answered by the fallback with status 200
C1_Witness ==
    /\ pc = "done" /\ status = 200
    /\ ~IsNone(file) /\ Len(urls) = 2 /\ Len(collected) = 3
    /\ Len(rag) = 1
    /\ NewRows = 1

\* the request has neither text nor file
NoTextNoFile == user_input \in {None, Some(<<>>)} /\ file = None

\* C3: a request with neither text nor file ends with status 400, and at
\* that point the handler has read no history, created no temporary file,
\* probed no URL, called neither the resolver nor the retrieval query and
\* persisted no record.
C3_RejectedBeforeAnyWork ==
    /\ (pc = "done" /\ NoTextNoFile) => status = 400
    /\ status = 400 =>
          /\ NoTextNoFile
          /\ calls = <<>> /\ history = <<>>
          /\ disk = {} /\ ntmp = 0 /\ temp_files_to_remove = <<>>
          /\ hc = IdleFrame /\ rag = <<>>
          /\ db = InitialRows

\* C3: the request with the empty text "" and no file has been rejected
C3_Witness ==
    pc = "done" /\ status = 400 /\ user_input = Some(<<>>) /\ file = None

\* handle_content has not returned yet
HCRunning == hc.pc \in {"entry", "upload", "gen1", "gen2"}

\* C2: a call of handle_content never ends in an exception: from every
\* point of the call a step to its return is possible, and what it returns,
\* for every source, MIME hint and outcome of fetch, upload and model calls,
\* is a non-empty string.
C2_ResolverAlwaysReturnsText ==
    /\ HCRunning => ENABLED HandleContent
    /\ hc.pc = "ret" => (hc.result # None /\ hc.result[1] # <<>>)

\* C2: an unreachable URL, hinted as a PDF, ended as a text
C2_Witness ==
    /\ hc.pc = "ret"
    /\ hc.source = UrlB /\ hc.mime_type = Some(MimePdf)
    /\ hc.result = Some(<<"Error fetching PDF:", " ", "timeout">>)

\* error descriptions that contain "blocked" or "safety" in some case
SafetyDescriptions == {<<"Blocked">>, <<"SAFETY">>}

\* C6: when the first model call fails with a description containing
\* "blocked" or "safety" in any case, the model is called a second time, and
\* when that call answers with non-empty text the resolver returns that text,
\* the model having been invoked exactly twice.
C6_SafetyRetryYieldsRetriedText ==
    (/\ hc.pc = "ret"
     /\ Len(hc.gen) >= 1
     /\ ~hc.gen[1].ok /\ hc.gen[1].val \in SafetyDescriptions)
    => /\ Len(hc.gen) = 2
       /\ (hc.gen[2].ok /\ hc.gen[2].val # <<>>) => hc.result = Some(hc.gen[2].val)

\* C6: a first call refused for SAFETY, a retry answered "A\n"
C6_Witness ==
    /\ hc.pc = "ret"
    /\ hc.gen = <<Fail(<<"SAFETY">>), Ok(<<"A", "\n">>)>>
    /\ hc.result = Some(<<"A", "\n">>)

\* C7: one resolution invokes the model at most twice; a second invocation
\* follows only a first failure whose description is of the safety class; a
\* first failure of another class is not retried; and a resolution whose last
\* model call failed returns "Error generating response: " and the description.
C7_RetryPolicyIsBounded ==
    /\ Len(hc.gen) <= 2
    /\ Len(hc.gen) = 2 =>
          (~hc.gen[1].ok /\ hc.gen[1].val \in SafetyDescriptions)
    /\ (hc.pc = "ret" /\ Len(hc.gen) >= 1 /\ ~hc.gen[1].ok
          /\ hc.gen[1].val \notin SafetyDescriptions) => Len(hc.gen) = 1
    /\ (hc.pc = "ret" /\ Len(hc.gen) >= 1 /\ ~hc.gen[Len(hc.gen)].ok) =>
          hc.result = Some(<<"Error generating response:", " ">>
                             \o hc.gen[Len(hc.gen)].val)

\* C7: the retry failed too, and there was no third call
C7_Witness ==
    /\ hc.pc = "ret"
    /\ hc.gen = <<Fail(<<"Blocked">>), Fail(<<"Blocked">>)>>
    /\ hc.result = Some(<<"Error generating response:", " ", "Blocked">>)

\* the MIME hint of the call starts with the major type t
HintStartsWith(t) == hc.mime_type # None /\ hc.mime_type[1] # <<>>
                     /\ hc.mime_type[1][1] = t

\* the payload is being, or has been, submitted to the model
Submitted == hc.pc \in {"gen1", "gen2"} \/ Len(hc.gen) >= 1

\* C8: the payload submitted to the model is [uploadedRef, prompt] for a MIME
\* hint starting with image/ and [prompt, uploadedRef] for one starting with
\* audio/, the prompt being the user's when one is supplied and the default
\* of the category when none is.
C8_ImageAudioPayloadOrder ==
    /\ (Submitted /\ HintStartsWith("image/")) =>
          /\ Len(hc.contents) = 2
          /\ hc.contents[1][1] = "ref"
          /\ hc.contents[2] =
               <<"str", IF hc.user_input \in {None, Some(<<>>)}
                        THEN <<"Caption this image.">> ELSE hc.user_input[1]>>
    /\ (Submitted /\ HintStartsWith("audio/")) =>
          /\ Len(hc.contents) = 2
          /\ hc.contents[2][1] = "ref"
          /\ hc.contents[1] =
               <<"str", IF hc.user_input \in {None, Some(<<>>)}
                        THEN <<"Describe this audio clip.">>
                        ELSE hc.user_input[1]>>

\* C8: a local audio clip without a user prompt, uploaded and submitted
C8_Witness ==
    /\ hc.pc = "gen1" /\ hc.mime_type = Some(MimeMp3)
    /\ hc.source = LocalFile /\ hc.user_input = None
    /\ hc.contents = << <<"str", <<"Describe this audio clip.">>>>,
                        <<"ref", LocalFile>> >>

\* str.split(): the maximal runs of non-whitespace tokens of a text
RECURSIVE SplitWords(_, _)
SplitWords(rest, cur) ==
    IF rest = <<>> THEN (IF cur = <<>> THEN <<>> ELSE <<cur>>)
    ELSE IF Head(rest) \in {" ", "\n"}
    THEN (IF cur = <<>> THEN <<>> ELSE <<cur>>) \o SplitWords(Tail(rest), <<>>)
    ELSE SplitWords(Tail(rest), Append(cur, Head(rest)))

\* a well-formed URL: http:// or https:// followed by at least one token
IsUrlWord(w) == Len(w) >= 2 /\ w[1] \in {"http://", "https://"}

\* every word of the text that holds a scheme is a well-formed URL
UrlsAreWords(t) ==
    \A k \in DOMAIN SplitWords(t, <<>>) :
        LET w == SplitWords(t, <<>>)[k]
        IN (\E j \in DOMAIN w : w[j] \in {"http://", "https://"}) => IsUrlWord(w)

\* C9: extract_urls returns the empty sequence for a null or empty text; for
\* a text whose URLs are well-formed and separated by whitespace it returns
\* exactly the URL words of the text, in their order, duplicates included.
C9_ExtractReturnsUrlsInOrder ==
    ex_pc = "ret" =>
        /\ ex_text \in {None, Some(<<>>)} => ex_out = <<>>
        /\ (ex_text \notin {None, Some(<<>>)} /\ UrlsAreWords(ex_text[1])) =>
              ex_out = SelectSeq(SplitWords(ex_text[1], <<>>), IsUrlWord)

\* C9: the same URL twice in a text, returned twice
C9_Witness ==
    /\ ex_pc = "ret"
    /\ ex_text = Some(<<"https://", "a", " ", "https://", "a">>)
    /\ ex_out = <<<<"https://", "a">>, <<"https://", "a">>>>

\* a collected result that line 109 keeps
Survives(r) == Strip(r) # <<>> /\ ~Contains(r, <<"Empty", " ", "Response">>)

\* a request with a file and two URLs, answered without the fallback, whose
\* three results all survived the filter
FileAndTwoUrlsMerged ==
    /\ pc = "done" /\ final_resp # None
    /\ file # None /\ Len(urls) = 2 /\ Len(collected) = 3
    /\ \A i \in 1..3 : Survives(collected[i])
    /\ rag = <<>>

\* C4, as stated: for file result F and URL results U1, U2, all surviving the
\* filter, and no fallback, the final text is F + "\n\n" + U1 + "\n\n" + U2.
C4_FinalIsJoinOfResults ==
    FileAndTwoUrlsMerged =>
        final_resp[1] = collected[1] \o <<"\n", "\n">> \o collected[2]
                          \o <<"\n", "\n">> \o collected[3]

\* C4, amended: the final text is strip(F) + "\n\n" + strip(U1) + "\n\n" +
\* strip(U2): the file result first, then the URL results in their order of
\* appearance, each without its leading and trailing whitespace.
C4_FinalIsJoinOfStrippedResults ==
    FileAndTwoUrlsMerged =>
        final_resp[1] = Strip(collected[1]) \o <<"\n", "\n">>
                          \o Strip(collected[2]) \o <<"\n", "\n">>
                          \o Strip(collected[3])

\* C4: the model answered "A\n" for the file, the probe of the first URL
\* failed and the second URL was of no supported type
C4_Witness ==
    /\ FileAndTwoUrlsMerged
    /\ collected[1] = <<"A", "\n">>
    /\ collected[2] = <<"Error processing URL", " ">> \o UrlA
                        \o <<":", " ", "timeout">>
    /\ collected[3] = <<"Unsupported content type:", " ", "unknown">>

\* the handler went past the filter of line 109 and merged
Merged == final_resp # None

\* C5: when every collected result is empty, whitespace or holds the marker
\* "Empty Response" and the user gave a text, the retrieval query is called
\* exactly once, and the final text is nothing but its stripped answer, or
\* the placeholder for an empty answer, or the error text for a failed query.
C5_FallbackOnceAndSole ==
    (/\ Merged
     /\ \A i \in DOMAIN collected : ~Survives(collected[i])
     /\ user_input \notin {None, Some(<<>>)})
    => /\ Len(rag) = 1
       /\ Cardinality({i \in DOMAIN calls : calls[i][1] = "query"}) = 1
       /\ response_texts = <<final_resp[1]>>
       /\ final_resp[1] =
            IF ~rag[1].ok
            THEN <<"Error generating response:", " ">> \o rag[1].val
            ELSE IF Strip(rag[1].val) # <<>> THEN Strip(rag[1].val)
            ELSE <<"I couldn't generate a good response for your query.">>

\* C5: a file result holding the marker and a whitespace-only URL result
\* were dropped, and the answer of the query is the final text
C5_Witness ==
    /\ Merged
    /\ Len(collected) = 2
    /\ collected[1] = <<"Empty", " ", "Response">>
    /\ collected[2] = <<" ">>
    /\ rag = <<Ok(<<"R", "\n">>)>>
    /\ final_resp = Some(<<"R">>)

\* C10: a request with text or a file ends with status 200 and a non-empty
\* response text unless an internal step (history query, storing the upload,
\* commit, building the response) raised: no failed fetch, HEAD probe,
\* upload, model call or retrieval query changes the status.  The statuses
\* are 200, 400 (no input) and 500 (an internal step raised).
C10_ExternalFailuresKeepStatus200 ==
    /\ status \in {0, 200, 400, 500}
    /\ status = 0 <=> pc # "done"
    /\ (pc = "done" /\ ~NoTextNoFile /\ fault = "") =>
          (status = 200 /\ final_resp # None /\ final_resp[1] # <<>>)
    /\ status = 400 => NoTextNoFile
    /\ status = 500 => fault # ""

\* C10: the upload of the file to the model failed, the probe of the URL
\* failed, and the request was answered with 200
C10_Witness ==
    /\ pc = "done" /\ status = 200
    /\ Len(collected) = 2
    /\ collected[1] = <<"Error processing image:", " ", "timeout">>
    /\ collected[2] = <<"Error processing URL", " ">> \o UrlA
                        \o <<":", " ", "timeout">>
    /\ final_resp = Some(collected[1] \o <<"\n", "\n">> \o collected[2])

\* C11, as stated: when handle_content returns, no temporary file that it
\* created while materializing a remote image or audio source exists, on any
\* exit path.
C11_NoTempFileLeftAtReturn ==
    hc.pc = "ret" => disk = {}

\* the temporary file of the uploaded file (the first one the request makes)
HandlerTemp == TmpName(1, suffix(file[1].filename))

\* C12, as stated: the temporary file chatbot_post creates for an upload is
\* scheduled for deferred removal on every exit path, and not before the
\* resolution of the file has finished, so that it exists during the whole
\* resolver call.
C12_UploadTempScheduledOnEveryExit ==
    /\ (pc = "file_wait") =>
           (HandlerTemp \in disk /\ background_tasks = <<>>)
    /\ (pc = "done" /\ ~IsNone(file) /\ HandlerTemp \in disk) =>
           HandlerTemp \in Range(background_tasks)

\* the external operations of the request so far, without the history load
IsOperation(c) == c[1] \in {"resolve", "head", "query"}
Operations == SelectSeq(calls, IsOperation)
IsProbe(c) == c[1] = "head"

\* the URLs of the text in their order of appearance
ExpectedUrls ==
    IF Truthy(user_input)
    THEN SelectSeq(SplitWords(user_input[1], <<>>), IsUrlWord)
    ELSE <<>>

\* C13: within one request the uploaded file is resolved before every URL,
\* the URLs are handled one after another in their order of appearance
\* (each resolver call directly after the probe of the same URL, and no
\* operation starts while a resolver call is open), and the fallback query
\* comes last, after every URL has been handled.
C13_FixedOrderOfOperations ==
    LET ops == Operations
        probes == SelectSeq(ops, IsProbe)
    IN /\ Len(probes) <= Len(ExpectedUrls)
       /\ \A k \in DOMAIN probes : probes[k][2] = ExpectedUrls[k]
       /\ \A i \in DOMAIN ops :
            /\ (ops[i][1] = "resolve" /\ ~IsUrlWord(ops[i][2])) =>
                   (i = 1 /\ ~IsNone(file) /\ ops[i][2] = HandlerTemp)
            /\ (ops[i][1] = "resolve" /\ IsUrlWord(ops[i][2])) =>
                   (i > 1 /\ ops[i - 1] = <<"head", ops[i][2]>>)
            /\ ops[i][1] = "query" =>
                   (i = Len(ops) /\ Len(probes) = Len(ExpectedUrls))
       /\ (~IsNone(file) /\ ops # <<>>) => ops[1] = <<"resolve", HandlerTemp>>
       /\ hc.pc # "idle" =>
              /\ pc \in {"file_wait", "url_wait"}
              /\ ops # <<>> /\ ops[Len(ops)][1] = "resolve"
              /\ ops[Len(ops)][2] = hc.source

\* a file, two URLs and the fallback, all in one answered request
C13_Witness ==
    /\ pc = "done" /\ status = 200
    /\ Len(Operations) = 6
    /\ Operations[1] = <<"resolve", HandlerTemp>>
    /\ Operations[2] = <<"head", UrlA>> /\ Operations[3] = <<"resolve", UrlA>>
    /\ Operations[4] = <<"head", UrlB>> /\ Operations[5] = <<"resolve", UrlB>>
    /\ Operations[6][1] = "query"

\* the fallback query was made and its substitute is the final text
FallbackDone == Merged /\ Len(rag) = 1

Apology == <<"I couldn't generate a good response for your query.">>

\* C14, as stated: when the fallback query returns an empty result or raises,
\* the text put into the final response is one fixed apology placeholder,
\* the same for every failure.
C14_FixedApologyOnEmptyOrFailure ==
    (FallbackDone /\ (~rag[1].ok \/ Strip(rag[1].val) = <<>>))
    => final_resp = Some(Apology)

\* C14, amended: an empty (or whitespace-only) answer of the fallback query
\* is replaced by the fixed apology placeholder; a query that raises is
\* replaced by "Error generating response: " followed by the text of the
\* exception, which differs from the placeholder and from one exception to
\* another.
C14_ApologyOnEmptyErrorTextOnFailure ==
    FallbackDone =>
        /\ (rag[1].ok /\ Strip(rag[1].val) = <<>>) => final_resp = Some(Apology)
        /\ ~rag[1].ok =>
             /\ final_resp =
                  Some(<<"Error generating response:", " ">> \o rag[1].val)
             /\ final_resp # Some(Apology)

\* the query raised and the answer names the exception
C14_Witness ==
    /\ pc = "done" /\ status = 200
    /\ rag = <<Fail(<<"rate limit">>)>>
    /\ final_resp = Some(<<"Error generating response:", " ", "rate limit">>)

\* the steps inside the try block of chatbot_post that can raise
StepsInTry == {"tmpfile", "write", "commit", "response"}

\* C15: an exception raised and not handled locally while storing the
\* upload, resolving, filtering, falling back, merging or persisting ends the
\* request with status 500 carried by an HTTPException; the only raw
\* exception that leaves the handler comes from the history load, which is
\* before these steps.
C15_UncaughtBecomes500 ==
    /\ fault \in StepsInTry =>
           (pc = "done" /\ status = 500 /\ raised = "HTTPException")
    /\ raised = "Exception" => fault = "history"
    /\ (pc = "done" /\ status = 500) => fault \in StepsInTry \cup {"history"}

\* the commit of the record raised after the final text was merged
C15_Witness ==
    /\ fault = "commit" /\ status = 500 /\ raised = "HTTPException"
    /\ final_resp # None /\ db = InitialRows

EmptyMarker == <<"<empty>">>

\* the rows the request has added to the table
AddedRows == SubSeq(db, Len(InitialRows) + 1, Len(db))

\* C18, as stated: the request's record holds the literal text when a text
\* was supplied, the file's name when only a file was supplied, and the fixed
\* empty-input marker when neither was supplied.
C18_RecordInputThreeCases ==
    (pc = "done" /\ fault = "") =>
        /\ Len(AddedRows) = 1
        /\ AddedRows[1].user_input =
             IF Truthy(user_input) THEN user_input[1]
             ELSE IF ~IsNone(file) THEN file[1].filename
             ELSE EmptyMarker

\* C18, amended: the record holds the literal text when a non-empty text was
\* supplied and the file's name when there was no text and a file; a request
\* with neither is rejected with status 400 and persists no record, so the
\* empty-input marker is never stored.
C18_RecordInputTextOrFileName ==
    /\ \A i \in DOMAIN AddedRows :
         /\ Truthy(user_input) => AddedRows[i].user_input = user_input[1]
         /\ ~Truthy(user_input) =>
                (~IsNone(file) /\ AddedRows[i].user_input = file[1].filename)
         /\ AddedRows[i].user_input # EmptyMarker
    /\ (pc = "done" /\ NoTextNoFile) => (status = 400 /\ AddedRows = <<>>)

\* an answered request with a file and no text, recorded under the file's name
C18_Witness ==
    /\ status = 200 /\ user_input = None
    /\ file = Some(Upload(<<"f", ".pdf">>, None))
    /\ Len(AddedRows) = 1 /\ AddedRows[1].user_input = <<"f", ".pdf">>

\* the MIME type of the call (the hint, or the guess from the extension when
\* no hint was given) is none of PDF, image, audio, text or JSON
UnsupportedCall ==
    LET m == IF hc.mime_type \in {None, Some(<<>>)}
             THEN guess_type(hc.source) ELSE hc.mime_type
    IN m \in {None, Some(MimeMp4)}

\* C20: handle_content answers "Unsupported content type: ..." exactly for
\* the sources whose MIME type (hint, or extension guess without a hint) is
\* in no supported category, and it does so at once: no download, no local
\* read, no upload and no generation call was made, and no temporary file
\* was created.
C20_UnsupportedReturnsAtOnce ==
    /\ hc.pc = "ret" =>
         (UnsupportedCall <=>
            StartsWith(hc.result[1], <<"Unsupported content type:">>))
    /\ (hc.pc \notin {"idle", "entry"} /\ UnsupportedCall) =>
         /\ hc.pc = "ret"
         /\ hc.io = <<>> /\ hc.gen = <<>> /\ hc.contents = <<>>
         /\ hc.temp_files = <<>> /\ disk = {}

\* a URL without extension and without hint was turned down
C20_Witness ==
    /\ hc.pc = "ret" /\ hc.source = UrlB /\ hc.mime_type = None
    /\ hc.result = Some(<<"Unsupported content type:", " ", "unknown">>)
    /\ hc.io = <<>> /\ hc.gen = <<>>

(***************************************************************************)
(* Calls without a timeout                                                 *)
(*                                                                         *)
(* httpx.get (timeout=30.0) and httpx.head (timeout=10.0) turn a server    *)
(* that never answers into an exception, which is one of IOErrors.         *)
(* client.files.upload, client.models.generate_content (the client is      *)
(* built as genai.Client(api_key=...), helper.py line 30) and              *)
(* query_engine.query are called without a timeout: when the service never *)
(* answers, the call never returns.                                        *)
(***************************************************************************)
\* helper.py lines 93, 117, 165-168, 173-177: the upload or the generation
\* call is never answered
HC_NoAnswer ==
    /\ hc.pc \in {"upload", "gen1", "gen2"}
    /\ hc' = [hc EXCEPT !.pc = "blocked"]
    /\ UNCHANGED <<postVars, disk, ntmp, exVars, concVars>>

\* chatbot.py line 116: the retrieval query is never answered
QueryNoAnswer ==
    /\ pc = "fallback"
    /\ pc' = "blocked"
    /\ calls' = Append(calls, <<"query", prompt_header \o <<"\n">> \o user_input[1]>>)
    /\ UNCHANGED <<user_input, file, status, raised, fault, history,
                   response_texts, collected, temp_files_to_remove, urls,
                   url_i, final_resp, rag, background_tasks, db, disk, ntmp,
                   hc, exVars, concVars>>

\* requests with and without text, URL and file
WaitInputs == {None, Some(TextOf(<<>>)), Some(TextOf(<<UrlB>>))}
WaitUploads == {None, Some(Upload(<<"f", ".png">>, Some(MimePng)))}

InitWait ==
    /\ user_input \in WaitInputs
    /\ file \in WaitUploads
    /\ pc = "start" /\ status = 0
    /\ raised = "" /\ fault = "" /\ history = <<>> /\ response_texts = <<>>
    /\ collected = <<>> /\ temp_files_to_remove = <<>> /\ urls = <<>>
    /\ url_i = 0 /\ final_resp = None /\ rag = <<>>
    /\ background_tasks = <<>> /\ db = InitialRows /\ disk = {} /\ ntmp = 0
    /\ calls = <<>> /\ hc = IdleFrame
    /\ ex_text = None /\ ex_out = <<>> /\ ex_pc = "none"
    /\ loop = IdleLoop /\ sess = IdleSess

NextWait == ChatbotPost \/ HandleContent \/ HC_NoAnswer \/ QueryNoAnswer

\* the handler is always scheduled again when one of its calls returns
SpecWait == InitWait /\ [][NextWait]_vars /\ WF_vars(NextWait)

\* C16, as stated: every external call made for a request is bounded by a
\* timeout, so every request is eventually answered, whatever the services
\* do.
C16_EveryRequestIsAnswered ==
    <>(pc = "done")

(***************************************************************************)
(* Several requests on one event loop                                      *)
(*                                                                         *)
(* chatbot_post and handle_content are coroutines (async def).  A          *)
(* coroutine gives the loop back only at an await that really suspends.    *)
(* The only await on an I/O operation is `await file.read()` (chatbot.py   *)
(* line 67); `await handle_content(...)` runs the callee in the same task, *)
(* and handle_content holds no await.  httpx.head, httpx.get,              *)
(* client.files.upload, client.models.generate_content,                    *)
(* query_engine.query, tmp.write and the session's query and commit are    *)
(* synchronous calls: the thread of the loop is inside the call until it   *)
(* returns.                                                                *)
(***************************************************************************)
Requests == 1..NumRequests

\* a request is sent with or without a file, with or without a URL in its text
RequestKinds == [has_file : BOOLEAN, has_url : BOOLEAN]

\* the I/O operations of chatbot_post in program order: an image file, an
\* image URL, the fallback when there is neither
HandlerCalls(k) ==
    <<"db.query">>
    \o (IF k.has_file
        THEN <<"file.read", "tmp.write", "files.upload", "generate_content">>
        ELSE <<>>)
    \o (IF k.has_url
        THEN <<"httpx.head", "httpx.get", "tmp.write", "files.upload",
               "generate_content">>
        ELSE <<>>)
    \o (IF ~k.has_file /\ ~k.has_url THEN <<"query_engine.query">> ELSE <<>>)
    \o <<"db.commit">>

\* the operations called with await
Awaited == {"file.read"}

NextCall(r) == HandlerCalls(loop.kind[r])[loop.at[r]]

\* every variable but the loop
noLoopVars == <<postVars, disk, ntmp, hc, exVars, sess>>

\* the loop is free and picks a task that is ready to run
Schedule(r) ==
    /\ loop.running = 0
    /\ loop.phase[r] \in {"queued", "woken"}
    /\ loop' = [loop EXCEPT !.running = r, !.phase[r] = "ready"]
    /\ UNCHANGED noLoopVars

\* the running coroutine reaches its next operation: a synchronous call is
\* entered on the thread of the loop; an awaited one suspends the coroutine
\* and frees the loop, or (UploadFile.read of a file held in memory) is
\* served at once without suspending
BeginCall(r) ==
    /\ loop.running = r
    /\ loop.phase[r] = "ready"
    /\ loop.at[r] <= Len(HandlerCalls(loop.kind[r]))
    /\ IF NextCall(r) \in Awaited
       THEN \/ loop' = [loop EXCEPT !.phase[r] = "suspended", !.running = 0]
            \/ loop' = [loop EXCEPT !.at[r] = @ + 1]
       ELSE loop' = [loop EXCEPT !.phase[r] = "in_call"]
    /\ UNCHANGED noLoopVars

\* the synchronous call returns
EndCall(r) ==
    /\ loop.phase[r] = "in_call"
    /\ loop' = [loop EXCEPT !.phase[r] = "ready", !.at[r] = @ + 1]
    /\ UNCHANGED noLoopVars

\* the awaited operation is over: the coroutine can be scheduled again
Wake(r) ==
    /\ loop.phase[r] = "suspended"
    /\ loop' = [loop EXCEPT !.phase[r] = "woken", !.at[r] = @ + 1]
    /\ UNCHANGED noLoopVars

\* the handler returns its response
Finish(r) ==
    /\ loop.running = r
    /\ loop.phase[r] = "ready"
    /\ loop.at[r] > Len(HandlerCalls(loop.kind[r]))
    /\ loop' = [loop EXCEPT !.phase[r] = "done", !.running = 0]
    /\ UNCHANGED noLoopVars

\* a step of request r
Step(r) == Schedule(r) \/ BeginCall(r) \/ EndCall(r) \/ Wake(r) \/ Finish(r)

LoopStep == \E r \in Requests : Step(r)

InitLoop ==
    /\ user_input = None /\ file = None /\ pc = "none" /\ status = 0
    /\ raised = "" /\ fault = "" /\ history = <<>> /\ response_texts = <<>>
    /\ collected = <<>> /\ temp_files_to_remove = <<>> /\ urls = <<>>
    /\ url_i = 0 /\ final_resp = None /\ rag = <<>>
    /\ background_tasks = <<>> /\ db = InitialRows /\ disk = {} /\ ntmp = 0
    /\ calls = <<>> /\ hc = IdleFrame
    /\ ex_text = None /\ ex_out = <<>> /\ ex_pc = "none"
    /\ sess = IdleSess
    /\ \E kinds \in [Requests -> RequestKinds] :
         loop = [running |-> 0,
                 at |-> [r \in Requests |-> 1],
                 phase |-> [r \in Requests |-> "queued"],
                 kind |-> kinds]

SpecLoop == InitLoop /\ [][LoopStep]_vars

\* the operations the statement names: network fetch, HEAD probe, file
\* read and write, model call
IOBoundaries == {"httpx.get", "httpx.head", "file.read", "tmp.write",
                 "files.upload", "generate_content", "query_engine.query"}

\* request r is waiting for one of these operations to end
WaitingOnIO(r) ==
    /\ loop.phase[r] \in {"in_call", "suspended"}
    /\ NextCall(r) \in IOBoundaries

\* C17, as stated: a request that waits on a network fetch, a HEAD probe, a
\* file read or write or a model call is suspended and does not hold the
\* loop: a request that is ready to run is run, or some other request is
\* running.
C17_NoRequestBlocksOthers ==
    \A r \in Requests : \A q \in Requests \ {r} :
        (WaitingOnIO(r) /\ loop.phase[q] \in {"queued", "woken"}) =>
            \/ loop.running \notin {0, r}
            \/ ENABLED Schedule(q)

(***************************************************************************)
(* Concurrent requests on the interaction table                            *)
(*                                                                         *)
(* Each request has its own session.  chatbot_post reads the caller's      *)
(* recent rows, later builds its record with the time of that moment, then *)
(* adds and commits it; get_chat_history reads.  Nothing in the routers    *)
(* updates or deletes a row.  The steps of different requests interleave   *)
(* freely (several workers on one database).                               *)
(***************************************************************************)
Users == {CurrentUser, 2}

\* every variable but the table and the sessions
noStoreVars == <<user_input, file, pc, status, raised, fault, history,
                 response_texts, collected, temp_files_to_remove, urls, url_i,
                 final_resp, rag, background_tasks, calls, disk, ntmp, hc,
                 exVars, loop>>

\* the text and the answer of request r
TextOfRequest(r) == <<"q", r>>
AnswerOfRequest(r) == <<"a", r>>

\* the clock of datetime.now never runs ahead of this
LastInstant == Len(InitialRows) + NumRequests + 1

\* time passes
Tick ==
    /\ sess.clock < LastInstant
    /\ sess' = [sess EXCEPT !.clock = @ + 1]
    /\ UNCHANGED <<db, noStoreVars>>

\* chatbot.py lines 47-53: the request reads the caller's recent rows
ReadPast(r) ==
    /\ sess.req[r].stage = "new"
    /\ sess' = [sess EXCEPT !.req[r].stage = "read",
                            !.req[r].past = Len(SelectSeq(db,
                                LAMBDA row : row.user_id = sess.req[r].user))]
    /\ UNCHANGED <<db, noStoreVars>>

\* lines 132-137: the record is built with the time of this moment
BuildRecord(r) ==
    /\ sess.req[r].stage = "read"
    /\ sess' = [sess EXCEPT
                  !.req[r].stage = "built",
                  !.req[r].record = Some(Row(sess.req[r].user, TextOfRequest(r),
                                             AnswerOfRequest(r), sess.clock))]
    /\ UNCHANGED <<db, noStoreVars>>

\* mutant: the commit replaces the newest row of the table
CommitOverwrites(rows, record) ==
    SubSeq(rows, 1, Len(rows) - 1) \o <<record>>

\* lines 138-139: db.add(record); db.commit() inserts one row
CommitInsert(rows, record) == Append(rows, record)

\* lines 138-149: the commit succeeds (status 200) or raises (status 500)
Commit(r) ==
    /\ sess.req[r].stage = "built"
    /\ \/ /\ db' = CommitInsert(db, sess.req[r].record[1])
          /\ sess' = [sess EXCEPT !.req[r].stage = "completed"]
       \/ /\ sess' = [sess EXCEPT !.req[r].stage = "failed"]
          /\ UNCHANGED db
    /\ UNCHANGED noStoreVars

\* ORDER BY timestamp ASC, one row inserted into a sorted list
RECURSIVE InsertByTimestamp(_, _)
InsertByTimestamp(sorted, row) ==
    IF sorted = <<>> THEN <<row>>
    ELSE IF Head(sorted).timestamp <= row.timestamp
    THEN <<Head(sorted)>> \o InsertByTimestamp(Tail(sorted), row)
    ELSE <<row>> \o sorted

\* line 164: order_by(ChatbotInteraction.timestamp.asc())
RECURSIVE OrderByTimestampAsc(_)
OrderByTimestampAsc(rows) ==
    IF rows = <<>> THEN <<>>
    ELSE InsertByTimestamp(OrderByTimestampAsc(SubSeq(rows, 1, Len(rows) - 1)),
                           rows[Len(rows)])

\* lines 157-168: GET /chatbot/history/ of user u
get_chat_history(rows, u) ==
    OrderByTimestampAsc(SelectSeq(rows, LAMBDA row : row.user_id = u))

\* one GET /chatbot/history/ request; the answer is kept with the size of
\* the table it was read from
GetHistory(u) ==
    /\ sess' = [sess EXCEPT !.got = Some([user |-> u, size |-> Len(db),
                                          rows |-> get_chat_history(db, u)])]
    /\ UNCHANGED <<db, noStoreVars>>

StoreStep ==
    \/ Tick
    \/ \E r \in Requests : ReadPast(r)
    \/ \E r \in Requests : BuildRecord(r)
    \/ \E r \in Requests : Commit(r)
    \/ \E u \in Users : GetHistory(u)

InitStore ==
    /\ user_input = None /\ file = None /\ pc = "none" /\ status = 0
    /\ raised = "" /\ fault = "" /\ history = <<>> /\ response_texts = <<>>
    /\ collected = <<>> /\ temp_files_to_remove = <<>> /\ urls = <<>>
    /\ url_i = 0 /\ final_resp = None /\ rag = <<>>
    /\ background_tasks = <<>> /\ db = InitialRows /\ disk = {} /\ ntmp = 0
    /\ calls = <<>> /\ hc = IdleFrame
    /\ ex_text = None /\ ex_out = <<>> /\ ex_pc = "none"
    /\ loop = IdleLoop
    /\ \E who \in [Requests -> Users] :
         sess = [clock |-> Len(InitialRows) + 1,
                 req |-> [r \in Requests |->
                            [user |-> who[r], stage |-> "new", past |-> 0,
                             record |-> None]],
                 got |-> None]

SpecStore == InitStore /\ [][StoreStep]_vars

\* positions of the rows of request r in the table
RowsOfRequest(r) == {i \in DOMAIN db : db[i].user_input = TextOfRequest(r)}

Completed == {r \in Requests : sess.req[r].stage = "completed"}

\* the answer of the last GET /chatbot/history/: only the caller's rows, each
\* row the caller had in the table once, timestamps ascending
HistoryAnswerIsRight ==
    sess.got # None =>
        LET g == sess.got[1]
            table == SubSeq(db, 1, g.size)
            mine == {i \in DOMAIN table : table[i].user_id = g.user}
        IN /\ \A k \in DOMAIN g.rows : g.rows[k].user_id = g.user
           /\ Len(g.rows) = Cardinality(mine)
           /\ {g.rows[k] : k \in DOMAIN g.rows} = {table[i] : i \in mine}
           /\ \A k \in 1..(Len(g.rows) - 1) :
                g.rows[k].timestamp <= g.rows[k + 1].timestamp

\* the table holds the rows it had before, and one row for each completed
\* request: the record that request built
TableIsRight ==
    /\ Len(db) = Len(InitialRows) + Cardinality(Completed)
    /\ SubSeq(db, 1, Len(InitialRows)) = InitialRows
    /\ \A r \in Requests :
         IF r \in Completed
         THEN /\ Cardinality(RowsOfRequest(r)) = 1
              /\ \A i \in RowsOfRequest(r) : db[i] = sess.req[r].record[1]
         ELSE RowsOfRequest(r) = {}

\* C19: under every interleaving of concurrent requests, also of one user,
\* the table only grows at its end (no row is changed, removed or inserted
\* twice), each completed request has added its own single record, and
\* GET /chatbot/history/ answers with the caller's rows only, in ascending
\* order of timestamp.
C19_AppendOnlyAndOrderedHistory ==
    /\ [](TableIsRight /\ HistoryAnswerIsRight)
    /\ [][Len(db') >= Len(db) /\ SubSeq(db', 1, Len(db)) = db]_vars

\* two overlapping requests of one user: the one that built its record later
\* committed first, and the history read afterwards is in timestamp order
C19_Witness ==
    /\ Completed = Requests
    /\ \A r \in Requests : sess.req[r].user = CurrentUser
    /\ Len(db) = Len(InitialRows) + NumRequests
    /\ db[Len(db) - 1].timestamp > db[Len(db)].timestamp
    /\ sess.got # None
    /\ sess.got[1].user = CurrentUser /\ sess.got[1].size = Len(db)
    /\ sess.got[1].rows[Len(sess.got[1].rows)] = db[Len(db) - 1]

\* calls of query_engine.query made for the request
QueryCalls == {i \in DOMAIN calls : calls[i][1] = "query"}

\* the texts a failed resolution of a file or a URL is turned into
FailurePrefixes ==
    {<<"Error fetching PDF:">>, <<"Error reading PDF file:">>,
     <<"Error processing image:">>, <<"Error processing audio:">>,
     <<"Error processing text content:">>, <<"Error generating response:">>,
     <<"An error occurred while processing your request:">>,
     <<"Error processing URL">>}

IsFailureText(r) == \E p \in FailurePrefixes : StartsWith(r, p)

\* C21: the retrieval query is made at most once per request; it is made
\* only for a request with a text, and only when no file or URL result
\* survived the filter.  A failed file or URL resolution is collected as an
\* error text, which survives the filter: such a request makes no query and
\* its final text holds the error text.
C21_QueryOnlyWhenNothingSurvived ==
    /\ Cardinality(QueryCalls) <= 1
    /\ Len(rag) = Cardinality(QueryCalls)
    /\ QueryCalls # {} =>
         /\ Truthy(user_input)
         /\ \A i \in DOMAIN collected : ~Survives(collected[i])
    /\ \A i \in DOMAIN collected :
         IsFailureText(collected[i]) =>
            /\ Survives(collected[i])
            /\ QueryCalls = {}
            /\ Merged => Contains(final_resp[1], collected[i])

\* the probe of the only URL failed: the answer is the error text, and no
\* query was made
C21_Witness ==
    /\ pc = "done" /\ status = 200 /\ file = None
    /\ collected = << <<"Error processing URL", " ">> \o UrlA
                         \o <<":", " ", "timeout">> >>
    /\ final_resp = Some(collected[1])
    /\ QueryCalls = {} /\ rag = <<>>

\* the filter of line 109 was reached: `collected` is what was gathered
Gathered == pc \in {"fallback", "merge"} \/ Merged

\* entries gathered before the first URL entry
FileEntries == IF IsNone(file) THEN 0 ELSE 1

\* position in the operations ops of the probe of the k-th URL
ProbeAt(ops, k) ==
    CHOOSE j \in DOMAIN ops :
        /\ ops[j][1] = "head"
        /\ Cardinality({m \in 1..j : ops[m][1] = "head"}) = k

\* in the operations ops the resolver was called for the k-th URL, u
ResolverCalledFor(ops, k, u) ==
    LET j == ProbeAt(ops, k)
    IN j < Len(ops) /\ ops[j + 1] = <<"resolve", u>>

\* C22: for a text with k URLs, k entries are gathered for them before the
\* filter, the i-th for the i-th URL.  Every URL is probed, whatever happened
\* to the ones before it; when the probe of a URL fails, its entry is the
\* text "Error processing URL <url>: <error>" and the resolver is not called
\* for it; otherwise the resolver is called for it and its entry is not
\* that text.
C22_UrlFailuresAreIsolated ==
    Gathered =>
        LET expected == ExpectedUrls
            k == Len(expected)
            ops == Operations
            probes == SelectSeq(ops, IsProbe)
        IN /\ Len(collected) = FileEntries + k
           /\ Len(probes) = k
           /\ \A i \in 1..k :
                LET entry == collected[FileEntries + i]
                    failed == <<"Error processing URL", " ">> \o expected[i]
                                 \o <<":", " ">>
                IN /\ probes[i] = <<"head", expected[i]>>
                   /\ IF ResolverCalledFor(ops, i, expected[i])
                      THEN ~StartsWith(entry, <<"Error processing URL">>)
                      ELSE \E e \in IOErrors : entry = failed \o e

\* the probe of the first URL failed, the second URL was resolved
C22_Witness ==
    /\ pc = "done" /\ status = 200 /\ file = None
    /\ Operations = << <<"head", UrlA>>, <<"head", UrlB>>, <<"resolve", UrlB>> >>
    /\ Len(collected) = 2
    /\ collected[1] = <<"Error processing URL", " ">> \o UrlA
                         \o <<":", " ", "timeout">>
    /\ collected[2] = <<"Unsupported content type:", " ", "unknown">>

====
